---- MODULE Spec2Model ----
(***************************************************************************)
(* The LinkedIn agent: the orchestrator main (linkedin_agent/run_agent.py),*)
(* the Selenium helpers it drives (linkedin_agent/linkedin_module.py) and  *)
(* the psql-backed repository (repository.py).                             *)
(*                                                                         *)
(* A Python str is a sequence of tokens; a token is a character or a fixed *)
(* run of characters ("/in/", "li.com").  None and the empty str/list/dict *)
(* are the empty sequence where the code only tests truthiness; an         *)
(* optional record is a sequence of length 0 or 1.                         *)
(***************************************************************************)
EXTENDS FiniteSets, Integers, Sequences, TLC

\* ------------------------------------------------------------------ bounds

MaxPages == 2      \* pages of the result set
MaxLinks == 3      \* <li> elements of one result page
MaxSaves == 3      \* length of a sequence of repository calls
MaxSearches == 3   \* runs whose searches are compared

\* ------------------------------------------------------- strings and tokens

Q == "'"

Numerals == <<"0", "1", "2", "3", "4", "5", "6", "7", "8", "9", "10", "11">>

NumeralSet == {Numerals[i] : i \in 1..Len(Numerals)}

\* str(n) of an f-string, n a small natural
IntStr(n) == Numerals[n + 1]

\* int(s), s the decimal text of a small natural; int(x or 0) reads "" as 0
ParseInt(s) == IF s = "" THEN 0 ELSE CHOOSE n \in 0..(Len(Numerals) - 1) : Numerals[n + 1] = s

RECURSIVE Contains(_, _)
Contains(s, tok) ==
    IF s = <<>> THEN FALSE
    ELSE IF Head(s) = tok THEN TRUE ELSE Contains(Tail(s), tok)

\* s.split('?')[0]
RECURSIVE SplitQuery(_)
SplitQuery(s) ==
    IF s = <<>> THEN <<>>
    ELSE IF Head(s) = "?" THEN <<>> ELSE <<Head(s)>> \o SplitQuery(Tail(s))

\* s.replace("'", "''")
RECURSIVE ReplaceQuote(_)
ReplaceQuote(s) ==
    IF s = <<>> THEN <<>>
    ELSE (IF Head(s) = Q THEN <<Q, Q>> ELSE <<Head(s)>>) \o ReplaceQuote(Tail(s))

\* '{s}' inside the f-string of a command
SqlQuote(s) == <<Q>> \o s \o <<Q>>

\* json.dumps of the analysis dict (model_dump of RecruiterAnalysis)
DumpsAnalysis(a) ==
    <<"{", "summary:", "\"">> \o a.summary \o
    <<"\"", ",", "alignment_score:", IntStr(a.alignment_score), "}">>

\* json.dumps of the mission parameters dict
DumpsMcp(m) ==
    <<"{", "search_query:", "\"">> \o m.search_query \o
    <<"\"", ",", "location:", "\"">> \o m.location \o <<"\"", "}">>

\* ------------------------------------------------------------- input values

UrlA == <<"li.com", "/in/", "a">>
UrlB == <<"li.com", "/in/", "b">>
UrlC == <<"li.com", "/in/", "c">>

\* hrefs of the anchors of a result page
HrefA == UrlA
HrefATracked == UrlA \o <<"?", "t">>
HrefB == UrlB
HrefC == UrlC
HrefCompany == <<"li.com", "/company/", "a">>
HrefSearchRedirect == <<"li.com", "/search", "?", "/in/", "a">>

\* the result pages the orchestrator meets: each a list of <li> elements,
\* each <li> the list of the hrefs of its anchors
ResultPages ==
    {p \in
    {<<>>,
     <<<<HrefA>>>>,
     <<<<>>, <<HrefC>>>>,
     <<<<HrefATracked>>, <<HrefA>>, <<HrefB>>>>,
     <<<<HrefA>>, <<HrefCompany, HrefB>>, <<HrefC>>>>} : Len(p) <= MaxLinks}

\* the <li> elements of the extraction fixtures
LiFixtures ==
    {<<>>, <<HrefA>>, <<HrefATracked>>, <<HrefB>>, <<HrefCompany>>,
     <<HrefSearchRedirect>>, <<HrefCompany, HrefA>>, <<HrefSearchRedirect, HrefB>>}

Fixtures == UNION {[1..n -> LiFixtures] : n \in 0..MaxLinks}

TextPlain == <<"a">>
TextQuoted == <<"a", Q>>
Texts == {TextPlain, TextQuoted}

\* the visible text of the profile page of a url, as the scrape formats it
TextOf(u) == <<"Name:">> \o Tail(Tail(u)) \o (IF u = UrlC THEN <<Q>> ELSE <<>>)

McpRecruiter == [search_query |-> <<"r">>, location |-> <<"x">>]
McpEngineer == [search_query |-> <<"e", Q>>, location |-> <<"y">>]
McpValues == {McpRecruiter, McpEngineer}

\* urls handed to the repository directly: two profile urls and two urls
\* that hold quotes
RepoUrls == {UrlA, UrlB, <<"x", Q>>, <<"x", Q, Q>>}

Analyses ==
    {[summary |-> <<"s">>, alignment_score |-> 7],
     [summary |-> <<"s", Q>>, alignment_score |-> 11]}

\* the structured response of the LLM to a profile text: the score is any
\* int the response holds
AnalysisOf(text) ==
    IF Contains(text, Q) THEN [summary |-> <<"s", Q>>, alignment_score |-> 11]
    ELSE [summary |-> <<"s">>, alignment_score |-> 7]

\* ------------------------------------------------------------ psql and SQL

SqlFail == [ok |-> FALSE, values |-> <<>>]

\* The value list of a command as the SQL lexer reads it: string literals
\* '...' in which '' is one quote, bare numerals, separated by commas.
\* mode: "value" (a value is due), "lit" (inside a literal), "sep" (a comma
\* or the end is due).
RECURSIVE SqlLex(_, _, _, _)
SqlLex(cmd, mode, cur, out) ==
    IF cmd = <<>> THEN [ok |-> mode = "sep", values |-> out]
    ELSE LET c == Head(cmd)
             rest == Tail(cmd)
         IN CASE mode = "lit" ->
                   IF c = Q
                   THEN IF rest # <<>> /\ Head(rest) = Q
                        THEN SqlLex(Tail(rest), "lit", Append(cur, Q), out)
                        ELSE SqlLex(rest, "sep", <<>>, Append(out, cur))
                   ELSE SqlLex(rest, "lit", Append(cur, c), out)
              [] mode = "value" ->
                   IF c = Q THEN SqlLex(rest, "lit", <<>>, out)
                   ELSE IF c \in NumeralSet
                        THEN SqlLex(rest, "sep", <<>>, Append(out, <<c>>))
                        ELSE SqlFail
              [] OTHER ->
                   IF c = "," THEN SqlLex(rest, "value", <<>>, out) ELSE SqlFail

\* run_psql_command on a command whose values are cmd, n of them expected:
\* raises (ok = FALSE) when psql cannot run or reach the server, or when the
\* server rejects the statement.
run_psql_command(cmd, n, psql_up) ==
    LET lex == SqlLex(cmd, "value", <<>>, <<>>)
    IN IF psql_up /\ lex.ok /\ Len(lex.values) = n THEN lex ELSE SqlFail

\* (variant: ON CONFLICT (profile_url) DO NOTHING)
UpsertRowDoNothing(table, row) ==
    IF \E r \in table : r.profile_url = row.profile_url THEN table ELSE table \cup {row}

\* INSERT ... ON CONFLICT (profile_url) DO UPDATE SET ... = EXCLUDED. ...
UpsertRow(table, row) ==
    IF \E r \in table : r.profile_url = row.profile_url
    THEN {IF r.profile_url = row.profile_url THEN row ELSE r : r \in table}
    ELSE table \cup {row}

\* the rows SELECT ... WHERE profile_url='{profile_url}' sees
RowsOf(table, key) == {r \in table : r.profile_url = key}

\* [result |-> the bool returned, table |-> validated_recruiters afterwards]
save_recruiter_analysis(table, profile_url, profile_text, mcp, analysis_data, psql_up) ==
    LET profile_text_sql == ReplaceQuote(profile_text)
        mcp_data_sql == ReplaceQuote(DumpsMcp(mcp))
        analysis_data_sql == ReplaceQuote(DumpsAnalysis(analysis_data))
        alignment_score == analysis_data.alignment_score
        command == SqlQuote(profile_url) \o <<",">> \o SqlQuote(profile_text_sql)
                   \o <<",">> \o SqlQuote(mcp_data_sql) \o <<",">>
                   \o SqlQuote(analysis_data_sql) \o <<",", IntStr(alignment_score)>>
        res == run_psql_command(command, 5, psql_up)
    IN IF res.ok /\ Len(res.values[5]) = 1 /\ res.values[5][1] \in NumeralSet
       THEN [result |-> TRUE,
             table |-> UpsertRow(table,
                         [profile_url |-> res.values[1],
                          profile_text |-> res.values[2],
                          mcp_data |-> res.values[3],
                          analysis_data |-> res.values[4],
                          alignment_score |-> ParseInt(res.values[5][1])])]
       ELSE [result |-> FALSE, table |-> table]

\* (variant: a query that raised counts as "exists")
profile_url_exists_fail_closed(table, profile_url, psql_up) ==
    LET res == run_psql_command(SqlQuote(profile_url), 1, psql_up)
    IN IF res.ok THEN RowsOf(table, res.values[1]) # {} ELSE TRUE

\* the bool returned: False also when the query raised
profile_url_exists(table, profile_url, psql_up) ==
    LET res == run_psql_command(SqlQuote(profile_url), 1, psql_up)
    IN IF res.ok THEN RowsOf(table, res.values[1]) # {} ELSE FALSE

\* ------------------------------------------------------------- extraction

\* elem.find_element(".//a[contains(@href, '/in/')]"): the first such anchor
\* of the <li>, <<>> when there is none (NoSuchElementException)
RECURSIVE FindProfileAnchor(_)
FindProfileAnchor(li) ==
    IF li = <<>> THEN <<>>
    ELSE IF Contains(Head(li), "/in/") THEN <<Head(li)>>
         ELSE FindProfileAnchor(Tail(li))

InList(urls, url) == \E i \in 1..Len(urls) : urls[i] = url

\* the for loop of extract_urls_from_current_page over the <li> elements
RECURSIVE ExtractLoop(_, _)
ExtractLoop(profile_elements, urls) ==
    IF profile_elements = <<>> THEN urls
    ELSE LET link_tag == FindProfileAnchor(Head(profile_elements))
         IN IF link_tag = <<>>
            THEN ExtractLoop(Tail(profile_elements), urls)
            ELSE LET url == SplitQuery(link_tag[1])
                 IN ExtractLoop(Tail(profile_elements),
                                IF InList(urls, url) THEN urls ELSE Append(urls, url))

extract_urls_from_current_page(profile_elements) == ExtractLoop(profile_elements, <<>>)

\* ------------------------------------------------------------ job schedule

\* the job_schedules row of the job, as psql prints its columns
JobRow(active, next_run, mission) ==
    [is_active |-> active, next_run_timestamp_ms |-> next_run, mission_parameters |-> mission]

JobTables ==
    {<<>>,
     <<JobRow("t", "", DumpsMcp(McpRecruiter))>>,
     <<JobRow("f", "5", DumpsMcp(McpRecruiter))>>,
     <<JobRow("t", "9", DumpsMcp(McpRecruiter))>>,
     <<JobRow("f", "9", <<>>)>>,
     <<JobRow("t", "", <<>>)>>,
     <<JobRow("t", "", <<"{", "}">>)>>,
     <<JobRow("t", "", <<"{">>)>>}

\* datetime.now() in ms
ClockValues == {5}

\* json.loads(mission_params_json) if mission_params_json else None; None and
\* the empty dict are <<>>, both falsy in main
LoadsMcp(text) ==
    IF text = <<>> \/ text = <<"{", "}">> THEN <<>>
    ELSE <<CHOOSE m \in McpValues : DumpsMcp(m) = text>>

\* json.loads accepts the text of the mission_parameters column
ValidJson(text) ==
    text = <<"{", "}">> \/ \E m \in McpValues : DumpsMcp(m) = text

\* the row can be turned into the dict: json.loads is called on a
\* non-empty mission_parameters text and raises when it is malformed
ParsableRow(row) == row.mission_parameters = <<>> \/ ValidJson(row.mission_parameters)

\* None (<<>>) when there is no row, the query raised or the row is malformed
get_job_schedule(table, psql_up) ==
    IF ~psql_up \/ table = <<>> \/ ~ParsableRow(table[1]) THEN <<>>
    ELSE <<[is_active |-> table[1].is_active,
            next_run_timestamp_ms |-> table[1].next_run_timestamp_ms,
            mission_parameters |-> LoadsMcp(table[1].mission_parameters)]>>

\* (variant: only a job that could not be loaded is refused)
NoMissionOnlyNone(js) == js = <<>>

\* not job_schedule or not job_schedule.get("mission_parameters")
NoMission(js) == js = <<>> \/ js[1].mission_parameters = <<>>

next_run_ms(js) == ParseInt(js[1].next_run_timestamp_ms)

\* (variant: the comparison is turned round)
NotDueReversed(now, next) == now > next

\* current_time_ms < next_run_ms
NotDue(now, next) == now < next

\* (variant: only an active job runs)
JobEnabledIfActive(js) == js[1].is_active = "t"

\* lines 149-159 test the mission and the schedule only: main has no test
\* of job_schedule["is_active"]
JobEnabled(js) == TRUE

\* the job table with the is_active column of the job set to flag
WithActive(table, flag) ==
    [i \in 1..Len(table) |-> [table[i] EXCEPT !.is_active = flag]]

\* the rows get_high_scoring_examples may return: the limit rows of highest
\* alignment_score, best first (ties in any order); [] when the query raised
TopExamples(table, limit) ==
    LET n == IF Cardinality(table) < limit THEN Cardinality(table) ELSE limit
    IN {s \in [1..n -> table] :
          /\ \A i, j \in 1..n : i < j => s[i] # s[j]
                                        /\ s[i].alignment_score >= s[j].alignment_score
          /\ \A r \in table : (\A i \in 1..n : s[i] # r) =>
                                 \A i \in 1..n : s[i].alignment_score >= r.alignment_score}

\* ----------------------------------------------------------------- search

\* quote_plus(search_query): letters are kept, a quote becomes %27
RECURSIVE quote_plus(_)
quote_plus(s) ==
    IF s = <<>> THEN <<>>
    ELSE <<IF Head(s) = Q THEN "%27" ELSE Head(s)>> \o quote_plus(Tail(s))

\* the url search_for_people(driver, search_query) passes to driver.get
people_search_url(search_query) ==
    <<"https://www.linkedin.com/search/results/people/?keywords=">>
      \o quote_plus(search_query)

\* what main passes to search_for_people: mcp_data.get("search_query", ...)
SearchQueryOf(mcp) == mcp.search_query

\* mission parameters of runs that are compared by their search
SearchMissions ==
    {[search_query |-> q, location |-> l] :
       q \in {<<"r">>, <<"e", Q>>, <<"r", "e">>}, l \in {<<"x">>, <<"y">>, <<"z">>}}

\* (variant: only a missing Next control returns False)
click_next_page_only_missing(res) == res # "no_control"

\* the bool click_next_page returns: True after the click; False when the
\* Next control was not found (TimeoutException, NoSuchElementException)
\* and when anything else failed (except Exception)
click_next_page(res) == res = "clicked"

\* (variant: the examples are fetched again for every analysis)
ExamplesArgFresh(few, table) == CHOOSE ex \in TopExamples(table, 2) : TRUE

\* the few_shot_examples argument of analyze_profile_with_langchain at line
\* 227: the list fetched at line 165, whatever the table holds by now
ExamplesArg(few, table) == few

\* ------------------------------------------------------------------ state

VARIABLES
    pc,                     \* the position of main
    job_schedule, current_time_ms, mcp_data, few_shot_examples,
    driver, attempt, page_number, profile_urls_on_page,
    link,                   \* index of url in profile_urls_on_page
    profile_text, analysis,
    job_schedules,          \* table job_schedules: the job's row
    validated_recruiters,   \* table validated_recruiters: a set of rows
    session,                \* the browser session: "none", "open", "quit"
    called,                 \* the functions main has called so far
    last_call, last_result, \* the most recent call and what it returned
    login_result,           \* what _login_to_linkedin returned: "true", "false", "raised"
    quit_calls,             \* calls of driver.quit()
    used_after_quit,        \* a browser operation ran on a session already quit
    fetched,                \* urls passed to scrape_full_profile_details so far
    present_when_reached,   \* the current url had a row when its link was reached
    table_at_page_start,    \* profile_urls persisted when the page was extracted
    cycles,                 \* fetch+analyze+persist cycles of the current page
    page_clean,             \* every call of the current page succeeded so far
    click_results,          \* what click_next_page returned, in order
    pages_processed,        \* result pages extracted
    fixture,                \* the <li> elements of an extraction fixture
    extracted,              \* what the extraction of the fixture returned
    n_calls,                \* repository calls made on the table
    last_saved,             \* per url, the arguments of its last successful save
    LINKEDIN_USERNAME,      \* os.getenv("LINKEDIN_USERNAME"): <<>> is None
    LINKEDIN_PASSWORD,      \* os.getenv("LINKEDIN_PASSWORD"): <<>> is None
    setup_calls,            \* calls of setup_driver
    lost_sessions,          \* sessions webdriver.Chrome started in a call of
                            \* setup_driver that raised afterwards: open, and
                            \* no reference to them is left
    navigated,              \* the searches made: mission parameters and the
                            \* url driver.get was called with
    echoed,                 \* what the CLI command has echoed, in order
    iter_calls,             \* the calls of the current link iteration and
                            \* what they returned, in order
    click_failure,          \* the last call of click_next_page failed for
                            \* another reason than a missing Next control
    examples_passed,        \* the few_shot_examples argument of every
                            \* analysis call so far
    login_trace             \* the browser calls of _login_to_linkedin and
                            \* how they ended, in order

locals == <<job_schedule, current_time_ms, mcp_data, few_shot_examples, driver,
            attempt, page_number, profile_urls_on_page, link, profile_text, analysis>>

page_hist == <<fetched, present_when_reached, table_at_page_start, cycles,
               page_clean, click_results, pages_processed>>

repo_vars == <<fixture, extracted, n_calls, last_saved>>

env == <<LINKEDIN_USERNAME, LINKEDIN_PASSWORD>>

setup_hist == <<setup_calls, lost_sessions>>

search_hist == <<navigated>>

cli_hist == <<echoed>>

iter_hist == <<iter_calls>>

click_hist == <<click_failure>>

examples_hist == <<examples_passed>>

login_hist == <<login_trace>>

vars == <<pc, locals, job_schedules, validated_recruiters, session, called,
          last_call, last_result, login_result, quit_calls, used_after_quit, page_hist, repo_vars,
          env, setup_hist, search_hist, cli_hist, iter_hist, click_hist,
          examples_hist, login_hist>>

RowOf(url, text, a) ==
    [profile_url |-> url, profile_text |-> text, mcp_data |-> DumpsMcp(McpRecruiter),
     analysis_data |-> DumpsAnalysis(a), alignment_score |-> a.alignment_score]

RowA == RowOf(UrlA, TextPlain, [summary |-> <<"s">>, alignment_score |-> 9])

InitialTables == {{}, {RowA}}

InitLocals ==
    /\ job_schedule = <<>>
    /\ current_time_ms = 0
    /\ mcp_data = <<>>
    /\ few_shot_examples = <<>>
    /\ driver = "None"
    /\ attempt = 0
    /\ page_number = 0
    /\ profile_urls_on_page = <<>>
    /\ link = 0
    /\ profile_text = <<>>
    /\ analysis = <<>>

InitHist ==
    /\ session = "none"
    /\ called = {}
    /\ last_call = "none"
    /\ last_result = "none"
    /\ login_result = "none"
    /\ quit_calls = 0
    /\ used_after_quit = FALSE
    /\ fetched = {}
    /\ present_when_reached = FALSE
    /\ table_at_page_start = {}
    /\ cycles = 0
    /\ page_clean = TRUE
    /\ click_results = <<>>
    /\ pages_processed = 0

InitRepo ==
    /\ fixture = <<>>
    /\ extracted = <<>>
    /\ n_calls = 0
    /\ last_saved = {}

\* what os.getenv returns for a credential: None, or the value of the .env file
Usernames == {<<>>, <<"user">>}
Passwords == {<<>>, <<"secret">>}

InitSetup ==
    /\ setup_calls = 0
    /\ lost_sessions = 0
    /\ navigated = {}
    /\ echoed = <<>>
    /\ iter_calls = <<>>
    /\ click_failure = FALSE
    /\ examples_passed = {}
    /\ login_trace = <<>>

\* no credentials, for the specifications that do not log in
NoEnv ==
    /\ LINKEDIN_USERNAME = <<>>
    /\ LINKEDIN_PASSWORD = <<>>

\* main(job_name) is about to start
Init ==
    /\ pc = "start"
    /\ InitLocals
    /\ InitHist
    /\ InitRepo
    /\ job_schedules \in JobTables
    /\ validated_recruiters \in InitialTables
    /\ LINKEDIN_USERNAME \in Usernames
    /\ LINKEDIN_PASSWORD \in Passwords
    /\ InitSetup

\* ------------------------------------------------------- main: control flow

\* (variant: the return leaves main at once, as it would outside the try)
OnLeaveTryNoFinally == "returned"

\* a return or an exception inside the try block runs the finally clause
OnLeaveTry == "cleanup"

\* (variant: the exception is swallowed and the page loop goes on)
OnOuterExceptionGoesOn == "click"

\* except Exception of the outer try (lines 256-257): the message is
\* printed and the finally clause runs
OnOuterException == OnLeaveTry

\* (variant: the result of the login is not tested)
AfterLoginIgnored(ok) == "search"

\* if not _login_to_linkedin(...): return
AfterLogin(ok) == IF ok THEN "search" ELSE OnLeaveTry

\* (variant: a search that returned False is made again)
AfterSearchRetry(ok) == IF ok THEN "extract" ELSE "search"

\* if not search_for_people(...): return
AfterSearch(ok) == IF ok THEN "extract" ELSE OnLeaveTry

\* (variant: the loop has no break)
AfterClickNoBreak(clicked) == "extract"

\* if not click_next_page(driver): break
AfterClick(clicked) == IF clicked THEN "extract" ELSE OnLeaveTry

\* (variant: the test of the existence check is inverted)
AfterExistsInverted(exists) == IF exists THEN "scrape" ELSE "next"

\* (variant: the existence check does not skip the link)
AfterExistsNoSkip(exists) == "scrape"

\* if profile_url_exists(url): continue
AfterExists(exists) == IF exists THEN "next" ELSE "scrape"

\* (variant: a failed scrape falls through to the analysis)
AfterScrapeNoSkip(text) == "analyze"

\* if not profile_text: continue
AfterScrape(text) == IF text = <<>> THEN "next" ELSE "analyze"

\* (variant: a failed analysis falls through to the save)
AfterAnalyzeNoSkip(result) == "save"

\* if not analysis: continue
AfterAnalyze(result) == IF result = <<>> THEN "next" ELSE "save"

\* (variant: a save that returned False is called again)
AfterSaveRetry(saved) == IF saved THEN "next" ELSE "save"

\* the bool save_recruiter_analysis returns is dropped: after the call the
\* iteration ends, whatever it returned
AfterSave(saved) == "next"

\* (variant: an exception of a link iteration leaves the page loop)
OnLinkExceptionAborts == OnLeaveTry

\* except Exception of the per-link try: the for loop takes the next url
OnLinkException == "next"

\* for attempt in range(3)
SetupAttempts == 3

\* (variant: after the last failed attempt main goes on to the login)
AfterSetupFailureGoesOn(n) == IF n < SetupAttempts - 1 THEN "setup" ELSE "login"

\* except Exception of the setup loop: if attempt < 2 the loop retries,
\* else main returns
AfterSetupFailure(n) == IF n < SetupAttempts - 1 THEN "setup" ELSE "returned"

\* what _login_to_linkedin can do with these credentials.  It returns False
\* when the login page did not load or the home page did not appear, True
\* when the home page appeared, and raises when driver.save_screenshot in
\* its except clause raises.  With a credential that is None the form is
\* submitted with an empty field and the home page does not appear.
LoginOutcomes(username, password) ==
    IF username = <<>> \/ password = <<>> THEN {"false", "raised"}
    ELSE {"true", "false", "raised"}

Record(name, result) ==
    /\ called' = called \cup {name}
    /\ last_call' = name
    /\ last_result' = result

\* a call of a link iteration; the existence check is its first call
RecordIter(name, result) ==
    /\ Record(name, result)
    /\ iter_calls' = IF name = "exists" THEN <<<<name, result>>>>
                     ELSE Append(iter_calls, <<name, result>>)

\* a call on the driver
BrowserOp == used_after_quit' = (used_after_quit \/ session = "quit")

\* the for loop over profile_urls_on_page moves to the next url, or ends.
\* profile_text and analysis are assigned in every iteration before they are
\* read, so the values an iteration leaves behind are dead: they are held at
\* None between iterations.
Advance ==
    /\ IF link < Len(profile_urls_on_page)
       THEN pc' = "exists" /\ link' = link + 1
       ELSE pc' = "click" /\ link' = link
    /\ profile_text' = <<>>
    /\ analysis' = <<>>

\* the iteration goes on to its next call with these values of the locals
Continue(target, text, result) ==
    IF target = "next" THEN Advance
    ELSE /\ pc' = target
         /\ link' = link
         /\ profile_text' = text
         /\ analysis' = result

url == profile_urls_on_page[link]

\* --------------------------------------------------------- main: the steps

\* lines 144-162: load the job, check the mission and the schedule
LoadJob ==
    /\ pc = "start"
    /\ \E psql_up \in BOOLEAN, now \in ClockValues :
         LET js == get_job_schedule(job_schedules, psql_up)
         IN /\ job_schedule' = js
            /\ Record("get_job_schedule", IF js = <<>> THEN "none" ELSE "ok")
            /\ IF NoMission(js)
               THEN pc' = "returned" /\ UNCHANGED <<current_time_ms, mcp_data>>
               ELSE /\ current_time_ms' = now
                    /\ IF NotDue(now, next_run_ms(js)) \/ ~JobEnabled(js)
                       THEN pc' = "returned" /\ UNCHANGED mcp_data
                       ELSE pc' = "examples" /\ mcp_data' = js[1].mission_parameters
    /\ UNCHANGED <<few_shot_examples, driver, attempt, page_number,
                   profile_urls_on_page, link, profile_text, analysis>>
    /\ UNCHANGED <<env, setup_hist, job_schedules, validated_recruiters, session, login_result, quit_calls,
                   used_after_quit, page_hist, repo_vars>>
    /\ UNCHANGED <<search_hist, cli_hist, iter_hist, click_hist, examples_hist, login_hist>>

\* line 165: few_shot_examples = get_high_scoring_examples(limit=2)
FetchExamples ==
    /\ pc = "examples"
    /\ \E psql_up \in BOOLEAN :
         \E ex \in (IF psql_up THEN TopExamples(validated_recruiters, 2) ELSE {<<>>}) :
            /\ few_shot_examples' = ex
            /\ Record("get_high_scoring_examples", IF psql_up THEN "ok" ELSE "raised")
    /\ pc' = "setup"
    /\ UNCHANGED <<job_schedule, current_time_ms, mcp_data, driver, attempt,
                   page_number, profile_urls_on_page, link, profile_text, analysis>>
    /\ UNCHANGED <<env, setup_hist, job_schedules, validated_recruiters, session, login_result, quit_calls,
                   used_after_quit, page_hist, repo_vars>>
    /\ UNCHANGED <<search_hist, cli_hist, iter_hist, click_hist, examples_hist, login_hist>>

\* lines 168-188: one attempt of the driver setup loop.  setup_driver
\* returns the driver, or raises: in webdriver.Chrome(...) before a session
\* exists ("raised"), or in driver.implicitly_wait / set_page_load_timeout
\* after webdriver.Chrome(...) has started one ("raised_started"); the
\* reference to that session is lost with the frame of setup_driver.
SetupDriver ==
    /\ pc = "setup"
    /\ \E res \in {"ok", "raised", "raised_started"} :
         /\ Record("setup_driver", IF res = "ok" THEN "ok" ELSE "raised")
         /\ lost_sessions' = IF res = "raised_started" THEN lost_sessions + 1
                                                       ELSE lost_sessions
         /\ IF res = "ok"
            THEN /\ driver' = "driver"
                 /\ session' = "open"
                 /\ attempt' = attempt
                 /\ pc' = "login"
            ELSE /\ driver' = driver
                 /\ session' = session
                 /\ pc' = AfterSetupFailure(attempt)
                 /\ attempt' = IF AfterSetupFailure(attempt) = "setup"
                               THEN attempt + 1 ELSE attempt
    /\ setup_calls' = setup_calls + 1
    /\ UNCHANGED <<job_schedule, current_time_ms, mcp_data, few_shot_examples,
                   page_number, profile_urls_on_page, link, profile_text, analysis>>
    /\ UNCHANGED <<env, job_schedules, validated_recruiters, login_result, quit_calls,
                   used_after_quit, page_hist, repo_vars>>
    /\ UNCHANGED <<search_hist, cli_hist, iter_hist, click_hist, examples_hist, login_hist>>

\* lines 191-193: the login; it returns a bool, or raises out of its own
\* except clause (driver.save_screenshot), which main's except catches
Login ==
    /\ pc = "login"
    /\ \E res \in LoginOutcomes(LINKEDIN_USERNAME, LINKEDIN_PASSWORD) :
         /\ Record("login", res)
         /\ login_result' = res
         /\ pc' = IF res = "raised" THEN OnOuterException ELSE AfterLogin(res = "true")
    /\ BrowserOp
    /\ UNCHANGED <<locals, env, setup_hist, job_schedules, validated_recruiters, session,
                   quit_calls, page_hist, repo_vars>>
    /\ UNCHANGED <<search_hist, cli_hist, iter_hist, click_hist, examples_hist, login_hist>>

\* lines 197-204: the search; search_for_people catches every exception
Search ==
    /\ pc = "search"
    /\ \E ok \in BOOLEAN :
         /\ Record("search", IF ok THEN "true" ELSE "false")
         /\ pc' = AfterSearch(ok)
         /\ page_number' = IF AfterSearch(ok) = "extract" THEN 1 ELSE page_number
    /\ BrowserOp
    /\ UNCHANGED <<job_schedule, current_time_ms, mcp_data, few_shot_examples,
                   driver, attempt, profile_urls_on_page, link, profile_text, analysis>>
    /\ UNCHANGED <<env, setup_hist, job_schedules, validated_recruiters, session, login_result, quit_calls,
                   page_hist, repo_vars>>
    /\ navigated' = navigated \cup
         {[mcp |-> mcp_data[1], url |-> people_search_url(SearchQueryOf(mcp_data[1]))]}
    /\ UNCHANGED <<cli_hist, iter_hist, click_hist, examples_hist, login_hist>>

\* lines 209-215: extract the urls of the current page and enter the for loop.
\* The extraction returns the urls of the <li> elements, [] when it failed,
\* or raises out of its except clause (driver.save_screenshot).
Extract ==
    /\ pc = "extract"
    /\ \E res \in {"ok", "failed", "raised"}, elems \in ResultPages :
         LET urls == IF res = "ok" THEN extract_urls_from_current_page(elems) ELSE <<>>
         IN /\ Record("extract", res)
            /\ IF res = "raised"
               THEN /\ pc' = OnOuterException
                    /\ UNCHANGED <<profile_urls_on_page, link, table_at_page_start,
                                   cycles, page_clean, pages_processed>>
               ELSE /\ profile_urls_on_page' = urls
                    /\ IF urls = <<>> THEN pc' = "click" /\ link' = link
                                      ELSE pc' = "exists" /\ link' = 1
                    /\ table_at_page_start' = {r.profile_url : r \in validated_recruiters}
                    /\ cycles' = 0
                    /\ page_clean' = (res = "ok")
                    /\ pages_processed' = pages_processed + 1
    /\ BrowserOp
    /\ UNCHANGED <<job_schedule, current_time_ms, mcp_data, few_shot_examples,
                   driver, attempt, page_number, profile_text, analysis>>
    /\ UNCHANGED <<env, setup_hist, job_schedules, validated_recruiters, session, login_result, quit_calls,
                   fetched, present_when_reached, click_results, repo_vars>>
    /\ UNCHANGED <<search_hist, cli_hist, iter_hist, click_hist, examples_hist, login_hist>>

\* lines 217-219: the existence check of the current url
Exists ==
    /\ pc = "exists"
    /\ \E psql_up \in BOOLEAN :
         LET exists == profile_url_exists(validated_recruiters, url, psql_up)
         IN /\ RecordIter("exists", IF exists THEN "true" ELSE "false")
            /\ Continue(AfterExists(exists), <<>>, <<>>)
            /\ page_clean' = (page_clean /\ psql_up)
    /\ present_when_reached' = (RowsOf(validated_recruiters, url) # {})
    /\ UNCHANGED <<job_schedule, current_time_ms, mcp_data, few_shot_examples,
                   driver, attempt, page_number, profile_urls_on_page>>
    /\ UNCHANGED <<env, setup_hist, job_schedules, validated_recruiters, session, login_result, quit_calls,
                   used_after_quit, fetched, table_at_page_start, cycles,
                   click_results, pages_processed, repo_vars>>
    /\ UNCHANGED <<search_hist, cli_hist, click_hist, examples_hist, login_hist>>

\* lines 222-225: scrape_full_profile_details returns the text of the page,
\* or None on any failure
Scrape ==
    /\ pc = "scrape"
    /\ \E text \in {TextOf(url), <<>>} :
         /\ RecordIter("scrape", IF text = <<>> THEN "none" ELSE "ok")
         /\ Continue(AfterScrape(text), text, <<>>)
         /\ page_clean' = (page_clean /\ text # <<>>)
    /\ fetched' = fetched \cup {url}
    /\ BrowserOp
    /\ UNCHANGED <<job_schedule, current_time_ms, mcp_data, few_shot_examples,
                   driver, attempt, page_number, profile_urls_on_page>>
    /\ UNCHANGED <<env, setup_hist, job_schedules, validated_recruiters, session, login_result, quit_calls,
                   present_when_reached, table_at_page_start, cycles,
                   click_results, pages_processed, repo_vars>>
    /\ UNCHANGED <<search_hist, cli_hist, click_hist, examples_hist, login_hist>>

\* lines 227-230: analyze_profile_with_langchain returns the analysis, None
\* when the chain failed, or raises while it builds the chain (the per-link
\* except clause then skips the link)
Analyze ==
    /\ pc = "analyze"
    /\ \E res \in {"ok", "none", "raised"} :
         LET result == IF res = "ok" THEN <<AnalysisOf(profile_text)>> ELSE <<>>
         IN /\ RecordIter("analyze", res)
            /\ Continue(IF res = "raised" THEN OnLinkException ELSE AfterAnalyze(result),
                        profile_text, result)
            /\ page_clean' = (page_clean /\ res = "ok")
    /\ UNCHANGED <<job_schedule, current_time_ms, mcp_data, few_shot_examples,
                   driver, attempt, page_number, profile_urls_on_page>>
    /\ UNCHANGED <<env, setup_hist, job_schedules, validated_recruiters, session, login_result, quit_calls,
                   used_after_quit, fetched, present_when_reached,
                   table_at_page_start, cycles, click_results, pages_processed,
                   repo_vars>>
    /\ examples_passed' = examples_passed
                            \cup {ExamplesArg(few_shot_examples, validated_recruiters)}
    /\ UNCHANGED <<search_hist, cli_hist, click_hist, login_hist>>

\* lines 232-245: model_dump and save_recruiter_analysis; the bool it
\* returns is dropped
Save ==
    /\ pc = "save"
    /\ \E psql_up \in BOOLEAN :
         LET saved == save_recruiter_analysis(validated_recruiters, url, profile_text,
                                              mcp_data[1], analysis[1], psql_up)
         IN /\ validated_recruiters' = saved.table
            /\ RecordIter("save", IF saved.result THEN "true" ELSE "false")
            /\ page_clean' = (page_clean /\ saved.result)
            /\ Continue(AfterSave(saved.result), profile_text, analysis)
    /\ cycles' = cycles + 1
    /\ UNCHANGED <<job_schedule, current_time_ms, mcp_data, few_shot_examples,
                   driver, attempt, page_number, profile_urls_on_page>>
    /\ UNCHANGED <<env, setup_hist, job_schedules, session, login_result, quit_calls, used_after_quit, fetched,
                   present_when_reached, table_at_page_start, click_results,
                   pages_processed, repo_vars>>
    /\ UNCHANGED <<search_hist, cli_hist, click_hist, examples_hist, login_hist>>

\* lines 251-254: click_next_page returns True after a click, False when
\* there is no Next control or the click failed; the result set has at most
\* MaxPages pages
ClickNext ==
    /\ pc = "click"
    /\ \E res \in {"clicked", "no_control", "failed"} :
         LET clicked == click_next_page(res)
         IN /\ res = "clicked" => page_number < MaxPages
            /\ Record("click", IF clicked THEN "true" ELSE "false")
            /\ click_results' = Append(click_results, clicked)
            /\ click_failure' = (res = "failed")
            /\ pc' = AfterClick(clicked)
            /\ page_number' = IF AfterClick(clicked) = "extract"
                              THEN page_number + 1 ELSE page_number
    /\ BrowserOp
    /\ UNCHANGED <<job_schedule, current_time_ms, mcp_data, few_shot_examples,
                   driver, attempt, profile_urls_on_page, link, profile_text, analysis>>
    /\ UNCHANGED <<env, setup_hist, job_schedules, validated_recruiters, session, login_result, quit_calls,
                   fetched, present_when_reached, table_at_page_start, cycles,
                   page_clean, pages_processed, repo_vars>>
    /\ iter_calls' = <<>>      \* the for loop has ended: no link iteration is current
    /\ UNCHANGED <<search_hist, cli_hist, examples_hist, login_hist>>

\* (variant: the run ends with update_next_run_timestamp(job_name, now + 1))
JobSchedulesRescheduled(table, now) ==
    [i \in 1..Len(table) |-> [table[i] EXCEPT !.next_run_timestamp_ms = IntStr(now + 1)]]

\* the job_schedules table when main ends: main has no call of
\* update_next_run_timestamp, nor any other statement that writes the table
JobSchedulesAfterRun(table, now) == table

\* if driver:
ShouldQuit(d) == d # "None"

\* lines 259-265: the finally clause
Cleanup ==
    /\ pc = "cleanup"
    /\ IF ShouldQuit(driver)
       THEN /\ quit_calls' = quit_calls + 1
            /\ session' = "quit"
            /\ Record("quit", "ok")
       ELSE UNCHANGED <<quit_calls, session, called, last_call, last_result>>
    /\ pc' = "returned"
    /\ job_schedules' = JobSchedulesAfterRun(job_schedules, current_time_ms)
    /\ UNCHANGED <<locals, env, setup_hist, validated_recruiters, login_result,
                   used_after_quit, page_hist, repo_vars>>
    /\ UNCHANGED <<search_hist, cli_hist, iter_hist, click_hist, examples_hist, login_hist>>

Next ==
    \/ LoadJob
    \/ FetchExamples
    \/ SetupDriver
    \/ Login
    \/ Search
    \/ Extract
    \/ Exists
    \/ Scrape
    \/ Analyze
    \/ Save
    \/ ClickNext
    \/ Cleanup

Spec == Init /\ [][Next]_vars

\* ------------------------------------------- the extraction on page fixtures

\* extract_urls_from_current_page is about to run on a fixture page
InitExtract ==
    /\ pc = "fixture"
    /\ InitLocals
    /\ InitHist
    /\ fixture \in Fixtures
    /\ extracted = <<>>
    /\ n_calls = 0
    /\ last_saved = {}
    /\ job_schedules = <<>>
    /\ validated_recruiters = {}
    /\ NoEnv
    /\ InitSetup

\* the call returns the urls of the fixture, or [] when the lookup of the
\* results container raised
ExtractFixture ==
    /\ pc = "fixture"
    /\ \E ok \in BOOLEAN :
         extracted' = IF ok THEN extract_urls_from_current_page(fixture) ELSE <<>>
    /\ pc' = "extracted"
    /\ UNCHANGED <<locals, env, setup_hist, job_schedules, validated_recruiters, session, called,
                   last_call, last_result, login_result, quit_calls,
                   used_after_quit, page_hist, fixture, n_calls, last_saved>>
    /\ UNCHANGED <<search_hist, cli_hist, iter_hist, click_hist, examples_hist, login_hist>>

SpecExtract == InitExtract /\ [][ExtractFixture]_vars

\* ------------------------------------------------ the repository on its own

\* the profile_url the server reads from '{profile_url}'
StoredKey(profile_url) == SqlLex(SqlQuote(profile_url), "value", <<>>, <<>>).values[1]

InitRepoCalls ==
    /\ pc = "repo"
    /\ InitLocals
    /\ InitHist
    /\ InitRepo
    /\ job_schedules = <<>>
    /\ validated_recruiters = {}
    /\ NoEnv
    /\ InitSetup

\* one call save_recruiter_analysis(profile_url, profile_text, mcp_data,
\* analysis_data)
RepoSave ==
    /\ pc = "repo"
    /\ n_calls < MaxSaves
    /\ \E u \in RepoUrls, text \in Texts, m \in McpValues, a \in Analyses,
          psql_up \in BOOLEAN :
         LET saved == save_recruiter_analysis(validated_recruiters, u, text, m, a, psql_up)
             before == {s \in last_saved : s.url = u}
         IN /\ validated_recruiters' = saved.table
            /\ last_result' = IF saved.result THEN "true" ELSE "false"
            /\ last_saved' =
                 IF saved.result
                 THEN (last_saved \ before) \cup
                      {[url |-> u, text |-> text, mcp |-> m, analysis |-> a,
                        rewritten |-> \E s \in before : s.text # text /\ s.analysis # a]}
                 ELSE last_saved
    /\ n_calls' = n_calls + 1
    /\ last_call' = "save"
    /\ UNCHANGED <<pc, locals, env, setup_hist, job_schedules, session, called, login_result,
                   quit_calls, used_after_quit, page_hist, fixture, extracted>>
    /\ UNCHANGED <<search_hist, cli_hist, iter_hist, click_hist, examples_hist, login_hist>>

SpecRepo == InitRepoCalls /\ [][RepoSave]_vars

\* ------------------------------------------------------ the CLI command run

\* everything but pc and what the CLI echoed
main_state == <<locals, env, setup_hist, job_schedules, validated_recruiters,
                session, called, last_call, last_result, login_result, quit_calls,
                used_after_quit, page_hist, repo_vars, search_hist, iter_hist,
                click_hist, examples_hist, login_hist>>

EchoStart == [stream |-> "out", msg |-> "INFO: Starting agent"]
EchoFinished == [stream |-> "out", msg |-> "INFO: Agent finished"]
EchoError == [stream |-> "err", msg |-> "ERROR"]

\* (variant: the finished message is echoed in a finally clause)
CliEchoAlwaysFinished(raised) == EchoFinished

\* what run echoes after the call of run_agent_main: the finished message
\* when it returned, the error (err=True) when it raised
CliEcho(raised) == IF raised THEN EchoError ELSE EchoFinished

\* the job table of a command: no row, a job that is due, a job that is not
CliJobTables ==
    {<<>>,
     <<JobRow("t", "", DumpsMcp(McpRecruiter))>>,
     <<JobRow("t", "9", DumpsMcp(McpRecruiter))>>}

\* the command run is invoked for a job
InitCli ==
    /\ pc = "cli"
    /\ InitLocals
    /\ InitHist
    /\ InitRepo
    /\ job_schedules \in CliJobTables
    /\ validated_recruiters = {RowA}
    /\ LINKEDIN_USERNAME = <<"user">>
    /\ LINKEDIN_PASSWORD = <<"secret">>
    /\ InitSetup

\* line 13, and the call of run_agent_main at line 15
CliStart ==
    /\ pc = "cli"
    /\ echoed' = Append(echoed, EchoStart)
    /\ pc' = "start"
    /\ UNCHANGED main_state

\* run_agent_main(job_name) raises: an exception of a statement of main
\* that no try block of main encloses (lines 143-188) leaves main
MainRaises ==
    /\ pc \in {"start", "examples", "setup"}
    /\ pc' = "raised"
    /\ UNCHANGED <<main_state, echoed>>

\* lines 16-18: run_agent_main has returned or raised
CliAfterMain ==
    /\ pc \in {"returned", "raised"}
    /\ echoed' = Append(echoed, CliEcho(pc = "raised"))
    /\ pc' = "cli_done"
    /\ UNCHANGED main_state

NextCli ==
    \/ CliStart
    \/ Next
    \/ MainRaises
    \/ CliAfterMain

SpecCli == InitCli /\ [][NextCli]_vars

\* ------------------------------------------------- _login_to_linkedin, step by step

\* for attempt in range(3), the navigation loop of _login_to_linkedin
LoginNavAttempts == 3

\* how the submission of the form can end with these credentials: the home
\* page appears ("home"), or the try block fails and the screenshot of the
\* except clause is taken ("rejected") or raises ("screenshot_raised")
SubmitOutcomes(username, password) ==
    IF username = <<>> \/ password = <<>> THEN {"rejected", "screenshot_raised"}
    ELSE {"home", "rejected", "screenshot_raised"}

\* what the call does after the submission ended this way
SubmitResult(res) ==
    CASE res = "home" -> "true"
      [] res = "rejected" -> "false"
      [] OTHER -> "raised"

Gets == {i \in 1..Len(login_trace) : login_trace[i][1] = "get"}

Submits == {i \in 1..Len(login_trace) : login_trace[i][1] = "submit"}

\* _login_to_linkedin(driver, LINKEDIN_USERNAME, LINKEDIN_PASSWORD) is called
InitLogin ==
    /\ pc = "login_nav"
    /\ InitLocals
    /\ InitHist
    /\ InitRepo
    /\ job_schedules = <<>>
    /\ validated_recruiters = {}
    /\ LINKEDIN_USERNAME \in Usernames
    /\ LINKEDIN_PASSWORD \in Passwords
    /\ InitSetup

\* lines 44-65: one attempt to load the login page
LoginNavigate ==
    /\ pc = "login_nav"
    /\ \E res \in {"loaded", "timeout", "error"} :
         /\ login_trace' = Append(login_trace, <<"get", res>>)
         /\ IF res = "loaded"
            THEN pc' = "login_submit" /\ login_result' = login_result
            ELSE IF Cardinality(Gets) + 1 < LoginNavAttempts
                 THEN pc' = "login_nav" /\ login_result' = login_result
                 ELSE pc' = "login_done" /\ login_result' = "false"
    /\ UNCHANGED <<locals, env, setup_hist, job_schedules, validated_recruiters,
                   session, called, last_call, last_result, quit_calls,
                   used_after_quit, page_hist, repo_vars>>
    /\ UNCHANGED <<search_hist, cli_hist, iter_hist, click_hist, examples_hist>>

\* lines 69-84: the credentials are entered and the form is submitted
LoginSubmit ==
    /\ pc = "login_submit"
    /\ \E res \in SubmitOutcomes(LINKEDIN_USERNAME, LINKEDIN_PASSWORD) :
         /\ login_trace' = Append(login_trace, <<"submit", res>>)
         /\ login_result' = SubmitResult(res)
    /\ pc' = "login_done"
    /\ UNCHANGED <<locals, env, setup_hist, job_schedules, validated_recruiters,
                   session, called, last_call, last_result, quit_calls,
                   used_after_quit, page_hist, repo_vars>>
    /\ UNCHANGED <<search_hist, cli_hist, iter_hist, click_hist, examples_hist>>

NextLogin ==
    \/ LoginNavigate
    \/ LoginSubmit

SpecLogin == InitLogin /\ [][NextLogin]_vars

\* ------------------------------------------------- the search of several runs

InitSearch ==
    /\ pc = "searching"
    /\ InitLocals
    /\ InitHist
    /\ InitRepo
    /\ job_schedules = <<>>
    /\ validated_recruiters = {}
    /\ NoEnv
    /\ InitSetup

\* lines 197-198 of a run whose mission parameters are m: the search of
\* that run
SearchRun ==
    /\ pc = "searching"
    /\ Cardinality(navigated) < MaxSearches
    /\ \E m \in SearchMissions :
         navigated' = navigated \cup
            {[mcp |-> m, url |-> people_search_url(SearchQueryOf(m))]}
    /\ UNCHANGED <<pc, locals, env, setup_hist, job_schedules, validated_recruiters,
                   session, called, last_call, last_result, login_result, quit_calls,
                   used_after_quit, page_hist, repo_vars>>
    /\ UNCHANGED <<cli_hist, iter_hist, click_hist, examples_hist, login_hist>>

SpecSearch == InitSearch /\ [][SearchRun]_vars

\* ------------------------------------------------------------ properties

\* C1: on every path on which setup_driver returned a driver, driver.quit()
\* is called exactly once before main returns, whatever ended the run, and
\* no browser operation happens after it: the session is quit only in the
\* step that returns.
C1_QuitExactlyOnce ==
    /\ quit_calls <= 1
    /\ ~used_after_quit
    /\ session = "quit" => pc = "returned"
    /\ (pc = "returned" /\ driver = "driver") => (quit_calls = 1 /\ session = "quit")

\* an exception raised by the link extraction ended the run and the session
\* was quit
C1_Witness ==
    /\ pc = "returned"
    /\ driver = "driver"
    /\ "extract" \in called
    /\ "click" \notin called
    /\ quit_calls = 1

\* C2: a url that has a row in the results table when its link is reached
\* is never passed to scrape_full_profile_details or
\* analyze_profile_with_langchain in that pass.
C2_PresentNeverFetched ==
    pc \in {"scrape", "analyze", "save"} => ~present_when_reached

\* C3: within one run each profile url is passed to
\* scrape_full_profile_details at most once.
C3_FetchedAtMostOnce == [][pc = "scrape" => url \notin fetched]_vars

\* C4: if next_run_timestamp_ms is later than the current time, main returns
\* having called nothing but get_job_schedule: no few-shot examples, no
\* driver, no login, search, fetch, analysis or persistence.
C4_NotDueNoWork ==
    (pc # "start" /\ ~NoMission(job_schedule)
       /\ current_time_ms < next_run_ms(job_schedule))
    => /\ pc = "returned"
       /\ called = {"get_job_schedule"}
       /\ session = "none"
       /\ driver = "None"

\* a job with a mission whose next run lies in the future was loaded
C4_Witness ==
    /\ pc = "returned"
    /\ ~NoMission(job_schedule)
    /\ current_time_ms < next_run_ms(job_schedule)

LoopPcs == {"extract", "exists", "scrape", "analyze", "save", "click"}

PageWeight == 4 * MaxLinks + 3

LinkPhase == CASE pc = "exists" -> 4 [] pc = "scrape" -> 3
               [] pc = "analyze" -> 2 [] OTHER -> 1

\* what is left of the page loop: pages, then links of the page, then calls
\* of the link (evaluated in the state and in its successor)
LoopRank ==
    CASE pc = "extract" -> (MaxPages - page_number) * PageWeight + PageWeight - 1
      [] pc \in {"exists", "scrape", "analyze", "save"} ->
           (MaxPages - page_number) * PageWeight
             + 4 * (Len(profile_urls_on_page) - link) + LinkPhase
      [] pc = "click" -> (MaxPages - page_number) * PageWeight
      [] OTHER -> 0 - 1

\* a False from click_next_page ends the loop with exactly as many pages
\* processed as calls of click_next_page were made
C5_FalseEndsLoop ==
    /\ pages_processed <= MaxPages
    /\ \A i \in 1..Len(click_results) :
         IF i < Len(click_results) THEN click_results[i]
         ELSE ~click_results[i] => /\ pc \in {"cleanup", "returned"}
                                   /\ pages_processed = Len(click_results)
                                   /\ page_number = Len(click_results)

\* every step of the page loop brings it nearer to its end
C5_LoopAdvances == pc \in LoopPcs => LoopRank' < LoopRank

\* C5: for a result set of N pages (click_next_page returns True N-1 times
\* and then False) the page loop processes exactly N pages and ends; a False
\* from click_next_page always ends it, and on a bounded result set every
\* step of the loop decreases the bounded rank, so it cannot run forever.
C5_Pagination == []C5_FalseEndsLoop /\ [][C5_LoopAdvances]_vars

\* the loop ran over MaxPages pages and ended on the False of the last one
C5_Witness ==
    /\ pc = "returned"
    /\ Len(click_results) = MaxPages
    /\ ~click_results[MaxPages]
    /\ pages_processed = MaxPages

PageLinks == {profile_urls_on_page[i] : i \in 1..Len(profile_urls_on_page)}

\* C6: for a page with n distinct links of which k were persisted when the
\* page was extracted, when every existence check, fetch, analysis and save
\* succeeded, exactly n-k fetch+analyze+persist cycles have occurred when
\* the page is done, and every link of the page then has a row.
C6_CyclesPerPage ==
    (pc = "click" /\ page_clean)
    => /\ Cardinality(PageLinks) = Len(profile_urls_on_page)
       /\ cycles = Len(profile_urls_on_page)
                     - Cardinality(PageLinks \cap table_at_page_start)
       /\ \A u \in PageLinks : RowsOf(validated_recruiters, u) # {}

\* the case of the spec: 3 links, 1 persisted, 2 cycles
C6_Witness ==
    /\ pc = "click"
    /\ page_clean
    /\ Len(profile_urls_on_page) = 3
    /\ Cardinality(PageLinks \cap table_at_page_start) = 1
    /\ cycles = 2

\* C7: when analyze_profile_with_langchain returns None for a link, the
\* step that made the call leaves the results table alone, counts no cycle,
\* and goes straight to the next link of the page (or to click_next_page
\* after the last one): no save and no second analysis for that link, and
\* the run goes on.
C7_AnalysisFailureSkips ==
    [][(pc = "analyze" /\ last_call' = "analyze" /\ last_result' = "none")
       => /\ validated_recruiters' = validated_recruiters
          /\ cycles' = cycles
          /\ IF link < Len(profile_urls_on_page)
             THEN pc' = "exists" /\ link' = link + 1
             ELSE pc' = "click"]_vars

\* the analysis of a link failed and main is at the next link of the page
C7_Witness ==
    /\ last_call = "analyze"
    /\ last_result = "none"
    /\ pc = "exists"
    /\ link > 1

\* the row a successful save with these arguments leaves
SavedRow(s) ==
    [profile_url |-> StoredKey(s.url), profile_text |-> s.text,
     mcp_data |-> DumpsMcp(s.mcp), analysis_data |-> DumpsAnalysis(s.analysis),
     alignment_score |-> s.analysis.alignment_score]

\* C8: after any sequence of save_recruiter_analysis calls the results table
\* holds at most one row per profile_url, every row is the row of the most
\* recent successful save of its url (text, mission parameters and analysis
\* as passed to it), and a url saved twice with different text and analysis
\* has exactly one row, with the second values.  The row of a url is the row
\* a lookup WHERE profile_url='{url}' finds.
C8_LastWriteWins ==
    /\ \A r1, r2 \in validated_recruiters : r1.profile_url = r2.profile_url => r1 = r2
    /\ \A s \in last_saved : RowsOf(validated_recruiters, StoredKey(s.url)) = {SavedRow(s)}
    /\ \A r \in validated_recruiters : \E s \in last_saved : r = SavedRow(s)

\* a url was saved a second time with another text and another analysis
C8_Witness ==
    \E s \in last_saved :
       /\ s.rewritten
       /\ RowsOf(validated_recruiters, StoredKey(s.url)) = {SavedRow(s)}

\* C9: the list extract_urls_from_current_page returns holds no url twice
\* and only profile links: every returned url is a '/in/' url.
C9_UniqueProfileLinks ==
    pc = "extracted"
    => /\ \A i, j \in 1..Len(extracted) : extracted[i] = extracted[j] => i = j
       /\ \A i \in 1..Len(extracted) : Contains(extracted[i], "/in/")

\* C10: if _login_to_linkedin returns False, main aborts: no search, link
\* extraction, fetch, analysis, persistence or pagination call is made.
C10_LoginFailureAborts ==
    login_result = "false"
    => /\ pc \in {"cleanup", "returned"}
       /\ called \cap {"search", "extract", "exists", "scrape", "analyze",
                       "save", "click"} = {}
       /\ validated_recruiters \in InitialTables

\* the login returned False and main has returned
C10_Witness ==
    /\ login_result = "false"
    /\ pc = "returned"
    /\ quit_calls = 1

LinkPcs == {"exists", "scrape", "analyze", "save"}

\* the for loop takes the next url of the page, or ends before click_next_page
NextLinkOrClick ==
    /\ profile_urls_on_page' = profile_urls_on_page
    /\ IF link < Len(profile_urls_on_page)
       THEN pc' = "exists" /\ link' = link + 1
       ELSE pc' = "click" /\ link' = link

\* a step of a link iteration goes on with the same link, or to the next
\* link, or (after the last link) to click_next_page
C11_LinkStep ==
    pc \in LinkPcs
    => \/ /\ pc' \in LinkPcs \ {"exists"}
          /\ link' = link
          /\ profile_urls_on_page' = profile_urls_on_page
       \/ NextLinkOrClick

\* an exception that reaches the except clause of the link iteration ends
\* that iteration only, and writes nothing
C11_RaiseSkipsLink ==
    (pc \in LinkPcs /\ last_result' = "raised")
    => NextLinkOrClick /\ validated_recruiters' = validated_recruiters

\* C11: an exception raised at a per-link step skips only that link: the
\* step that raised goes to the existence check of the next link of the
\* page, or to click_next_page after the last link; no step of a link
\* iteration leaves the page loop, the links are taken one by one, and
\* click_next_page is reached only when every link of the page was visited.
C11_LinkExceptionSkipsLink ==
    /\ [][C11_LinkStep /\ C11_RaiseSkipsLink]_vars
    /\ [](pc \in LinkPcs => link \in 1..Len(profile_urls_on_page))
    /\ [](pc = "click" => (profile_urls_on_page = <<>> \/ link = Len(profile_urls_on_page)))

\* the analysis of the first of three links raised and main is at the
\* existence check of the second
C11_Witness ==
    /\ last_call = "analyze"
    /\ last_result = "raised"
    /\ pc = "exists"
    /\ link = 2
    /\ Len(profile_urls_on_page) = 3

\* C12: when a site credential (LINKEDIN_USERNAME / LINKEDIN_PASSWORD) is
\* missing, main does no browser work: setup_driver is not called, no browser
\* session is started and no login is attempted.
C12_MissingCredentialsNoBrowser ==
    (LINKEDIN_USERNAME = <<>> \/ LINKEDIN_PASSWORD = <<>>)
    => /\ called \cap {"setup_driver", "login"} = {}
       /\ session = "none"
       /\ lost_sessions = 0

\* the calls main makes on the browser, the LLM and the results table
WorkCalls == {"login", "search", "extract", "exists", "scrape", "analyze", "save", "click"}

\* at most 3 calls of setup_driver; a driver, once returned, is the result of
\* the last call, and all calls before it raised; after 3 calls that raised
\* main has returned and has done no work
C13_SetupState ==
    /\ setup_calls <= 3
    /\ driver = "driver" => (pc # "setup" /\ setup_calls = attempt + 1)
    /\ (setup_calls = 3 /\ driver = "None")
       => /\ pc = "returned"
          /\ called \cap WorkCalls = {}
          /\ session = "none"
          /\ validated_recruiters \in InitialTables

\* C13: setup_driver is attempted at most 3 times per run; the retry loop
\* stops at the first attempt that returns a driver (no call of setup_driver
\* follows it), and if all 3 attempts raise, main returns without any login,
\* search, fetch, analysis or persistence call.
C13_SetupRetries ==
    /\ []C13_SetupState
    /\ [][driver = "driver" => setup_calls' = setup_calls]_vars
    /\ [][(pc = "setup" /\ last_result' = "ok") => (driver' = "driver" /\ pc' = "login")]_vars

\* three calls of setup_driver raised and main has returned
C13_Witness ==
    /\ setup_calls = 3
    /\ driver = "None"
    /\ last_call = "setup_driver"
    /\ last_result = "raised"
    /\ pc = "returned"

\* the calls of the page loop
PageCalls == {"extract", "exists", "scrape", "analyze", "save", "click"}

\* whatever was called of the page loop, the search was called before, and
\* the login before the search
C14_Order ==
    /\ "search" \in called => "login" \in called
    /\ called \cap PageCalls # {} => "search" \in called

\* C14: in a run of main _login_to_linkedin is called at most once and
\* search_for_people at most once (when either is called it has not been
\* called before); the login precedes the search, and the search precedes
\* every link extraction, fetch, analysis, save and next-page call.
C14_LoginOnceSearchOnce ==
    /\ []C14_Order
    /\ [][pc = "login" => (last_call' = "login" /\ "login" \notin called)]_vars
    /\ [][pc = "search" => (last_call' = "search" /\ "search" \notin called
                                /\ "login" \in called)]_vars
    /\ [][last_call' \in {"login", "search"} => last_call # last_call']_vars

\* a run that logged in, searched, saved an analysis and ended on the last page
C14_Witness ==
    /\ pc = "returned"
    /\ {"login", "search", "extract", "scrape", "analyze", "save", "click"} \subseteq called

\* C15: when scrape_full_profile_details returns None for a link, the step
\* that made the call writes nothing, counts no cycle and goes straight to
\* the next link of the page (or to click_next_page after the last one);
\* the analysis and the save are only ever reached with the text of a
\* scrape that succeeded for the current link.
C15_ScrapeFailureSkips ==
    /\ [][(pc = "scrape" /\ last_result' = "none")
          => /\ validated_recruiters' = validated_recruiters
             /\ cycles' = cycles
             /\ NextLinkOrClick]_vars
    /\ [](pc \in {"analyze", "save"} => profile_text = TextOf(url))

\* the scrape of a link failed and main is at the next link of the page
C15_Witness ==
    /\ last_call = "scrape"
    /\ last_result = "none"
    /\ pc = "exists"
    /\ link > 1

\* C16: a failure of save_recruiter_analysis is not retried and does not end
\* the run: the step that calls save ends the link iteration whatever the
\* call returned (so save is called at most once per iteration) and goes to
\* the next link or to click_next_page, and a save that returned False
\* leaves the results table as it was.
C16_SaveFailureGoesOn ==
    /\ [][pc = "save" => (last_call' = "save" /\ NextLinkOrClick)]_vars
    /\ [][(pc = "save" /\ last_result' = "false")
          => validated_recruiters' = validated_recruiters]_vars
    /\ [][(pc \in LinkPcs /\ pc' = "save") => (pc = "analyze" /\ link' = link)]_vars

\* the save of a link failed, the link has no row, and main is at the next
\* link of the page
C16_Witness ==
    /\ last_call = "save"
    /\ last_result = "false"
    /\ pc = "exists"
    /\ link > 1
    /\ RowsOf(validated_recruiters, profile_urls_on_page[link - 1]) = {}

\* the calls main makes inside the outer try but outside the per-link try
OuterCalls == {"login", "search", "extract", "click"}

\* C17: an exception raised outside the per-link try (by the login, the
\* search, the link extraction or the next-page call) aborts the run: the
\* step that raised goes to the finally clause and writes nothing; the
\* finally clause quits the session and main returns, with no call other
\* than driver.quit(); nothing happens after main has returned.
C17_OuterExceptionAborts ==
    /\ [][(last_call' \in OuterCalls /\ last_result' = "raised" /\ pc # "cleanup")
          => /\ pc' = "cleanup"
             /\ validated_recruiters' = validated_recruiters
             /\ pages_processed' = pages_processed]_vars
    /\ [][pc = "cleanup"
          => /\ pc' = "returned"
             /\ session' = "quit"
             /\ quit_calls' = quit_calls + 1
             /\ called' = called \cup {"quit"}
             /\ validated_recruiters' = validated_recruiters
             /\ pages_processed' = pages_processed
             /\ fetched' = fetched]_vars
    /\ [][pc # "returned"]_vars

\* the login raised; main has closed the session and returned without a
\* search or a page
C17_Witness ==
    /\ login_result = "raised"
    /\ pc = "returned"
    /\ session = "quit"
    /\ called \cap ({"search"} \cup PageCalls) = {}

\* C18: every row of the results table has an integer alignment_score
\* between 1 and 10 inclusive, whatever the LLM call returned.
C18_ScoreInRange ==
    \A r \in validated_recruiters : r.alignment_score \in 1..10

\* the browser sessions that exist: the one main holds, if open, and those
\* started by calls of setup_driver that raised after starting them
OpenSessions == (IF session = "open" THEN 1 ELSE 0) + lost_sessions

\* C19: at every point of a run of main at most one browser session exists,
\* the setup retry attempts included.
C19_OneSession == OpenSessions <= 1

\* C20: an extraction that fails or finds no links yields the empty list
\* without raising: the step leaves main with an empty
\* profile_urls_on_page at click_next_page, no link of the page is
\* processed and the run is not aborted.
C20_EmptyExtractionGoesOn ==
    [][(pc = "extract" /\ (last_result' # "ok" \/ profile_urls_on_page' = <<>>))
       => /\ profile_urls_on_page' = <<>>
          /\ pc' = "click"
          /\ validated_recruiters' = validated_recruiters
          /\ fetched' = fetched]_vars

\* C21: the search of a run is determined by the search_query and the
\* location of its mission parameters: two runs whose mission parameters
\* differ only in location navigate to different search urls.
C21_LocationInSearchUrl ==
    \A a, b \in navigated :
       (a.mcp.search_query = b.mcp.search_query /\ a.mcp.location # b.mcp.location)
       => a.url # b.url

Echoes(e) == Cardinality({i \in 1..Len(echoed) : echoed[i] = e})

\* C22: the command run never lets an exception of run_agent_main escape:
\* when run_agent_main raises, the step after it echoes the error to the
\* error stream and ends the command, and the finished message is not
\* echoed; the finished message is echoed (once) exactly when
\* run_agent_main returned.
C22_CliCatchesAll ==
    /\ [][pc = "raised" => (pc' = "cli_done" /\ echoed' = Append(echoed, EchoError))]_vars
    /\ [][pc = "returned" => (pc' = "cli_done" /\ echoed' = Append(echoed, EchoFinished))]_vars
    /\ [][Echoes(EchoFinished)' > Echoes(EchoFinished) => pc = "returned"]_vars
    /\ [](Echoes(EchoFinished) + Echoes(EchoError) <= 1)
    /\ [](pc = "cli_done" => Echoes(EchoFinished) + Echoes(EchoError) = 1)
    /\ [](Echoes(EchoError) = 1 => echoed[Len(echoed)].stream = "err")

\* run_agent_main raised after a failed driver setup attempt, and the
\* command ended with the error message only
C22_Witness ==
    /\ pc = "cli_done"
    /\ setup_calls > 0
    /\ echoed = <<EchoStart, EchoError>>

\* the calls that come before the save in a link iteration, with what
\* they returned
BeforeSave == <<<<"exists", "false">>, <<"scrape", "ok">>, <<"analyze", "ok">>>>

\* C23: every call of save_recruiter_analysis for a url happens in a link
\* iteration in which, in this order, profile_url_exists returned False,
\* scrape_full_profile_details returned text and the analysis returned a
\* result, all for the url of the iteration; the text and the analysis a
\* successful save persists are the ones of that iteration.
C23_SaveAfterChecks ==
    /\ [](pc = "save" => /\ iter_calls = BeforeSave
                         /\ profile_text = TextOf(url)
                         /\ analysis = <<AnalysisOf(TextOf(url))>>)
    /\ [][last_call' = "save" => (pc = "save" /\ iter_calls' = Append(BeforeSave, <<"save", last_result'>>))]_vars
    /\ [][(pc = "save" /\ last_result' = "true")
          => RowsOf(validated_recruiters', StoredKey(url))
               = {SavedRow([url |-> url, text |-> TextOf(url), mcp |-> mcp_data[1],
                            analysis |-> AnalysisOf(TextOf(url))])}]_vars

\* the second link of a page was saved after its own check, scrape and
\* analysis
C23_Witness ==
    /\ last_call = "save"
    /\ last_result = "true"
    /\ link >= 2
    /\ iter_calls = Append(BeforeSave, <<"save", "true">>)
    /\ \E r \in validated_recruiters : r.profile_text = TextOf(profile_urls_on_page[2])

\* C24: click_next_page never raises: the step that calls it always ends
\* with a bool; when the call failed for another reason than a missing
\* Next control it returned False, and the page loop ends there as on the
\* last page: no further page is extracted.
C24_ClickNeverRaises ==
    /\ [][pc = "click" => (last_call' = "click" /\ last_result' \in {"true", "false"})]_vars
    /\ [][(pc = "click" /\ click_failure')
          => /\ last_result' = "false"
             /\ pc' = "cleanup"
             /\ page_number' = page_number]_vars
    /\ [][click_failure => (pages_processed' = pages_processed /\ fetched' = fetched)]_vars
    /\ [](click_failure => pc \in {"cleanup", "returned"})

\* the click failed on the first page of a result set that could have had
\* another page, and main has returned after that one page
C24_Witness ==
    /\ click_failure
    /\ pc = "returned"
    /\ pages_processed = 1
    /\ page_number < MaxPages
    /\ click_results = <<FALSE>>

\* C25: _login_to_linkedin tries to load the login page at most 3 times
\* and stops at the first success; when all 3 attempts failed it returns
\* False without entering credentials; the credentials are submitted at
\* most once per call, and a failed submission is not retried and returns
\* False.
C25_LoginAttempts ==
    /\ Cardinality(Gets) <= 3
    /\ Cardinality(Submits) <= 1
    /\ \A i \in Gets : login_trace[i][2] = "loaded" => i = Len(login_trace) \/ i + 1 \in Submits
    /\ \A i \in Submits : i = Len(login_trace) /\ login_trace[i - 1] = <<"get", "loaded">>
    /\ (Cardinality(Gets) = 3 /\ \A i \in Gets : login_trace[i][2] # "loaded")
       => (pc = "login_done" /\ login_result = "false" /\ Submits = {})
    /\ \A i \in Submits : login_trace[i][2] # "home"
          => (pc = "login_done" /\ login_result = "false")

\* the run has passed the schedule gate
PassedGate ==
    /\ pc # "start"
    /\ ~NoMission(job_schedule)
    /\ ~NotDue(current_time_ms, next_run_ms(job_schedule))

\* C26: get_high_scoring_examples is called exactly once per run that
\* passes the schedule gate (when it is called it has not been called
\* before, and a run past the gate has called it or is about to), before
\* any call of setup_driver; few_shot_examples is not assigned again, and
\* every analysis is passed that list, whatever was persisted meanwhile.
C26_ExamplesOnce ==
    /\ [][pc = "examples"
          => /\ last_call' = "get_high_scoring_examples"
             /\ "get_high_scoring_examples" \notin called
             /\ setup_calls = 0
             /\ session = "none"]_vars
    /\ [][pc # "examples" => (few_shot_examples' = few_shot_examples
                               /\ last_call' # "get_high_scoring_examples")]_vars
    /\ [](PassedGate => (pc = "examples" \/ "get_high_scoring_examples" \in called))
    /\ []("get_high_scoring_examples" \in called => PassedGate)
    /\ [](examples_passed \subseteq {few_shot_examples})

\* an analysis was made after the run persisted a record that scores
\* higher than the example fetched at the start
C26_Witness ==
    /\ last_call = "analyze"
    /\ few_shot_examples # <<>>
    /\ examples_passed = {few_shot_examples}
    /\ \E r \in validated_recruiters :
          r.alignment_score > few_shot_examples[1].alignment_score

\* the times of a later invocation
LaterTimes == {t \in 0..(Len(Numerals) - 1) : t >= current_time_ms}

\* C27: a run of main never writes the job-schedule table: no step changes
\* a field of the job's row, so a job that was due before a run that
\* completed is still due at any later invocation.
C27_JobScheduleReadOnly ==
    /\ [][job_schedules' = job_schedules]_vars
    /\ []((pc = "returned" /\ PassedGate)
          => \A t \in LaterTimes :
                LET js == get_job_schedule(job_schedules, TRUE)
                IN ~NoMission(js) /\ ~NotDue(t, next_run_ms(js)))

\* a run that was due has saved a record, closed the session and returned
C27_Witness ==
    /\ pc = "returned"
    /\ PassedGate
    /\ "save" \in called
    /\ quit_calls = 1
    /\ job_schedules[1].next_run_timestamp_ms = "5"

\* C28: profile_url_exists never raises: the step that calls it always
\* ends with a bool; a query that fails gives False, and on False main goes
\* on to scrape_full_profile_details for the same url, also when the url
\* has a row.
C28_ExistsFailsOpen ==
    /\ [][pc = "exists" => (last_call' = "exists" /\ last_result' \in {"true", "false"})]_vars
    /\ [](pc = "exists" => ~profile_url_exists(validated_recruiters, url, FALSE))
    /\ [][(pc = "exists" /\ page_clean /\ ~page_clean')
          => (last_result' = "false" /\ pc' = "scrape" /\ link' = link)]_vars
    /\ [][(pc = "exists" /\ last_result' = "false") => (pc' = "scrape" /\ link' = link)]_vars

\* the existence query of a url that has a row failed, and main is about
\* to fetch the url
C28_Witness ==
    /\ pc = "scrape"
    /\ last_call = "exists"
    /\ last_result = "false"
    /\ RowsOf(validated_recruiters, url) # {}

\* main has gone on to the browser part, or is on its way to it
Proceeded == pc \in {"examples", "setup"} \/ "setup_driver" \in called

\* what main reads of the job row, for the row as it is and for the row
\* with is_active set to flag, is the same but for is_active
SameButActive(flag) ==
    LET js1 == get_job_schedule(job_schedules, TRUE)
        js2 == get_job_schedule(WithActive(job_schedules, flag), TRUE)
    IN /\ (js1 = <<>>) = (js2 = <<>>)
       /\ NoMission(js1) = NoMission(js2)
       /\ ~NoMission(js1)
          => /\ js1[1].mission_parameters = js2[1].mission_parameters
             /\ next_run_ms(js1) = next_run_ms(js2)
             /\ JobEnabled(js1) = JobEnabled(js2)

\* C29: whether main proceeds to open a browser session depends only on
\* the job row being loadable, its mission_parameters being non-empty and
\* its next_run_timestamp_ms not being in the future (main proceeds exactly
\* when these three hold); is_active has no influence: a row that differs
\* only in is_active gives main the same mission, the same schedule and the
\* same decision.
C29_ActiveFlagIgnored ==
    /\ pc # "start" => (Proceeded <=> PassedGate)
    /\ \A flag \in {"t", "f"} : SameButActive(flag)

\* a job that is not active has passed the gate and a session is open
C29_Witness ==
    /\ job_schedule # <<>>
    /\ job_schedule[1].is_active = "f"
    /\ PassedGate
    /\ session = "open"

\* the job schedule could not be loaded, or has no mission parameters
Unloadable == job_schedule = <<>> \/ job_schedule[1].mission_parameters = <<>>

\* C30: when the job schedule cannot be loaded (no row, a database error
\* or a malformed row: get_job_schedule gives None for each) or its
\* mission_parameters are missing or empty, main returns at once: no
\* few-shot examples are fetched, setup_driver is not called, and the
\* results table is not written.
C30_NoJobNoWork ==
    /\ (pc # "start" /\ (job_schedules = <<>> \/ ~ParsableRow(job_schedules[1])))
       => job_schedule = <<>>
    /\ (pc # "start" /\ last_result = "none" /\ last_call = "get_job_schedule")
       => job_schedule = <<>>
    /\ (pc # "start" /\ Unloadable)
       => /\ pc = "returned"
          /\ called = {"get_job_schedule"}
          /\ few_shot_examples = <<>>
          /\ setup_calls = 0
          /\ session = "none"
          /\ validated_recruiters \in InitialTables

\* the row of the job was malformed and main has returned
C30_Witness ==
    /\ pc = "returned"
    /\ job_schedules # <<>>
    /\ ~ParsableRow(job_schedules[1])
    /\ job_schedule = <<>>

====
